---------------------------- MODULE Spec2Model ----------------------------
(***************************************************************************)
(* A model of fewshot/eval.py: nearest-label predictions from embeddings   *)
(* (compute_predictions, compute_predictions_projection), accuracy scoring *)
(* (_accuracy_impl, simple_accuracy, simple_topk_accuracy) and the dataset *)
(* level wrappers (predict_and_score_Wmap, predict_and_score_Zmap).        *)
(*                                                                         *)
(* The module is a library of pure functions.  A behaviour is one call:    *)
(* the initial state holds the function called and its arguments, and the  *)
(* one step of the behaviour runs the function and records its outcome (a  *)
(* returned value or a raised exception).                                  *)
(***************************************************************************)
EXTENDS Integers, Sequences, FiniteSets, TLC

VARIABLES
    fn,        \* the function of eval.py being called
    args,      \* its arguments, a record keyed by parameter name
    locals,    \* local variables of the call when it ended (X, Y, predictions)
    outcome    \* Pending, or what the call did: Return(v) or Raise(e, m)

vars == <<fn, args, locals, outcome>>

-----------------------------------------------------------------------------
(* Bounds of the model.                                                    *)

\* longest ground_truth / predictions list passed to the accuracy functions
MaxLen == 2
\* largest explicit k
MaxK == 2
\* most example rows and most label rows passed to compute_predictions
MaxRows == 2
\* most rows of dataset.embeddings
MaxEmb == 3

-----------------------------------------------------------------------------
(* Python values.  Every value carries its type, so that == between values *)
(* of different types is False, as in Python.                              *)

PyStr(s) == [type |-> "str", val |-> s]
PyInt(i) == [type |-> "int", val |-> i]
None == [type |-> "NoneType"]

MISSING_VALUE == PyStr("***")

Prediction(closest, scores, best) ==
    [type |-> "Prediction", closest |-> closest, scores |-> scores, best |-> best]

Pending == [type |-> "pending"]
Return(v) == [type |-> "return", value |-> v]
Raise(exc, msg) == [type |-> "raise", exc |-> exc, msg |-> msg]

Min(a, b) == IF a < b THEN a ELSE b
Max(a, b) == IF a < b THEN b ELSE a
Abs(a) == IF a < 0 THEN -a ELSE a

RECURSIVE Gcd(_, _)
Gcd(a, b) == IF b = 0 THEN a ELSE Gcd(b, a % b)

\* An exact real number num/den (den > 0), in lowest terms: the model's float.
Float(num, den) ==
    LET g == Gcd(Abs(num), den)
    IN  [num |-> num \div g, den |-> den \div g]

FloatLess(a, b) == a.num * b.den < b.num * a.den

\* Sequences over S of length lo..hi.
SeqsOf(S, lo, hi) == UNION {[1..n -> S] : n \in lo..hi}

\* Python's s[start:stop] on a list, with negative indices counted from the
\* end and both clipped to the list; stop = None means "to the end".
\* start and stop are None or a PyInt.
SliceIndex(i, n) == IF i < 0 THEN Max(n + i, 0) ELSE Min(i, n)

PySlice(s, start, stop) ==
    LET n  == Len(s)
        lo == IF start = None THEN 0 ELSE SliceIndex(start.val, n)
        hi == IF stop = None THEN n ELSE SliceIndex(stop.val, n)
    IN  IF hi <= lo THEN <<>> ELSE [i \in 1..(hi - lo) |-> s[lo + i]]

-----------------------------------------------------------------------------
(* Prediction.__eq__ and Python's == and `in`.                             *)

\* math.isclose(s1, s2, abs_tol=1e-5).  Scores are exact in the model and
\* the distinct similarity values of the model's vectors lie further apart
\* than the tolerance, so closeness is equality of the exact values.
isclose(s1, s2) == s1 = s2

Prediction__eq__(self, other) ==
    IF other.type # "Prediction" THEN FALSE
    ELSE IF Len(self.scores) # Len(other.scores) THEN FALSE
    ELSE IF \E i \in 1..Len(self.scores) : ~isclose(self.scores[i], other.scores[i])
         THEN FALSE
    ELSE self.closest = other.closest /\ self.best = other.best

\* a == b: Prediction defines __eq__ (attr.s(eq=False) generates none);
\* str, int and None compare by type and value.
PyEq(a, b) ==
    IF a.type = "Prediction" THEN Prediction__eq__(a, b)
    ELSE IF b.type = "Prediction" THEN Prediction__eq__(b, a)
    ELSE a = b

\* x in s, for a list s
PyIn(x, s) == \E i \in 1..Len(s) : PyEq(s[i], x)

\* bool(v), as `if k:` takes it
Truthy(v) ==
    CASE v.type = "NoneType" -> FALSE
      [] v.type = "int" -> v.val # 0
      [] v.type = "str" -> v.val # ""
      [] OTHER -> TRUE

-----------------------------------------------------------------------------
(* Accuracy scoring.                                                       *)

\* zip in place of zip_longest: the longer list is cut to the shorter
zip_shortest(a, b, fill) ==
    [i \in 1..Min(Len(a), Len(b)) |-> <<a[i], b[i]>>]

\* itertools.zip_longest(a, b, fillvalue=fill)
zip_longest(a, b, fill) ==
    [i \in 1..Max(Len(a), Len(b)) |->
        <<IF i <= Len(a) THEN a[i] ELSE fill,
          IF i <= Len(b) THEN b[i] ELSE fill>>]

\* the match set of one iteration of _accuracy_impl's loop
match_set(pred, k) ==
    IF Truthy(k) THEN PySlice(pred.closest, None, k) ELSE pred.closest

\* matched / total * 100
Percentage(matched, total) == Float(matched * 100, total)

\* the loop without the test of total == 0 after it: the division fails
RECURSIVE accuracy_loop_unchecked(_, _, _, _, _)
accuracy_loop_unchecked(pairs, i, matched, total, k) ==
    IF i > Len(pairs)
    THEN IF total = 0
         THEN Raise("ZeroDivisionError", "division by zero")
         ELSE Return(Percentage(matched, total))
    ELSE LET truth == pairs[i][1]
             pred  == pairs[i][2]
         IN  IF PyEq(truth, MISSING_VALUE) \/ PyEq(pred, MISSING_VALUE)
             THEN Raise("ValueError", "Accuracy length mismatch")
             ELSE accuracy_loop_unchecked(pairs, i + 1,
                      IF PyIn(truth, match_set(pred, k)) THEN matched + 1 ELSE matched,
                      total + 1, k)

\* _accuracy_impl's loop from its i-th iteration on, and what follows it.
RECURSIVE accuracy_loop(_, _, _, _, _)
accuracy_loop(pairs, i, matched, total, k) ==
    IF i > Len(pairs)
    THEN IF total = 0
         THEN Raise("ValueError", "Passed lists should be non-empty")
         ELSE Return(Percentage(matched, total))
    ELSE LET truth == pairs[i][1]
             pred  == pairs[i][2]
         IN  IF PyEq(truth, MISSING_VALUE) \/ PyEq(pred, MISSING_VALUE)
             THEN Raise("ValueError", "Accuracy length mismatch")
             ELSE accuracy_loop(pairs, i + 1,
                      IF PyIn(truth, match_set(pred, k)) THEN matched + 1 ELSE matched,
                      total + 1, k)

_accuracy_impl(ground_truth, predictions, k) ==
    accuracy_loop(zip_longest(ground_truth, predictions, MISSING_VALUE), 1, 0, 0, k)

simple_accuracy(ground_truth, predictions) ==
    _accuracy_impl(ground_truth, predictions, PyInt(1))

simple_topk_accuracy(ground_truth, predictions) ==
    _accuracy_impl(ground_truth, predictions, None)

-----------------------------------------------------------------------------
(* Tensors.  A tensor is its shape and its rows; a row v / sqrt(n2) is     *)
(* carried as the integer vector v and the positive integer n2, so that    *)
(* L2-normalisation is exact.  A rank-1 tensor has the one row it is.      *)

Row(v) == [v |-> v, n2 |-> 1]

Tensor1(v) == [shape |-> <<Len(v)>>, rows |-> <<Row(v)>>]
Tensor2(vs, d) == [shape |-> <<Len(vs), d>>, rows |-> [i \in 1..Len(vs) |-> Row(vs[i])]]

RECURSIVE DotFrom(_, _, _)
DotFrom(u, v, i) == IF i > Len(u) THEN 0 ELSE u[i] * v[i] + DotFrom(u, v, i + 1)
Dot(u, v) == DotFrom(u, v, 1)

Sign(x) == IF x < 0 THEN -1 ELSE IF x > 0 THEN 1 ELSE 0

\* t.reshape((1, len(t))) of a rank-1 tensor
reshape_row(t) == [shape |-> <<1, t.shape[1]>>, rows |-> t.rows]

\* F.normalize(t, p=2, dim=1): each row divided by max(its norm, eps); a
\* zero row stays zero.
normalize_row(r) ==
    IF Dot(r.v, r.v) = 0 THEN r ELSE [v |-> r.v, n2 |-> Dot(r.v, r.v)]

normalize(t) == [t EXCEPT !.rows = [i \in 1..Len(t.rows) |-> normalize_row(t.rows[i])]]

\* A matrix (a projection matrix, Wmap, Zmap), from its sequence of rows
Matrix(M) == [type |-> "Tensor", matrix |-> M]

\* one row of torch.matmul(t, W): the row times the matrix
matmul_row(r, M) ==
    [v |-> [j \in 1..Len(M[1]) |-> Dot(r.v, [i \in 1..Len(M) |-> M[i][j]])],
     n2 |-> r.n2]

\* torch.matmul(t, W) / torch.mm(t, W) for a rank-2 tensor t and a matrix W
matmul(t, W) ==
    [shape |-> <<Len(t.rows), Len(W.matrix[1])>>,
     rows |-> [i \in 1..Len(t.rows) |-> matmul_row(t.rows[i], W.matrix)]]

\* t[start:stop] on the rows of a rank-2 tensor
tensor_slice(t, start, stop) ==
    LET rows == PySlice(t.rows, start, stop)
    IN  [shape |-> <<Len(rows), t.shape[2]>>, rows |-> rows]

\* F.cosine_similarity of two rows: dot / max(|a| |b|, eps), which is 0
\* when either row is zero.  The value c is carried as the exact number
\* sign(c) * c^2, which has the order and the equalities of c.
cosine_row(a, b) ==
    LET d  == Dot(a.v, b.v)
        na == Dot(a.v, a.v)
        nb == Dot(b.v, b.v)
    IN  IF na = 0 \/ nb = 0 THEN Float(0, 1) ELSE Float(Sign(d) * d * d, na * nb)

\* F.cosine_similarity(x1, x2) of a (1, d) tensor and an (m, d) tensor: one
\* similarity per row of x2
cosine_similarity(x1, x2) ==
    [j \in 1..Len(x2.rows) |-> cosine_row(x1.rows[1], x2.rows[j])]

\* The permutations of 0..m-1, as sequences.
Permutations0(m) ==
    {p \in [1..m -> 0..(m - 1)] : \A i, j \in 1..m : i # j => p[i] # p[j]}

\* argsort without descending=True: the indices by rising similarity
argsort_ascending(similarities) ==
    {p \in Permutations0(Len(similarities)) :
        \A i \in 1..(Len(similarities) - 1) :
            ~FloatLess(similarities[p[i + 1] + 1], similarities[p[i] + 1])}

\* similarities.argsort(descending=True): the indices (from 0) by falling
\* similarity.  The order among equal similarities is the library's choice:
\* the operator is the set of the orders argsort may return.
argsort_descending(similarities) ==
    {p \in Permutations0(Len(similarities)) :
        \A i \in 1..(Len(similarities) - 1) :
            ~FloatLess(similarities[p[i] + 1], similarities[p[i + 1] + 1])}

\* sorted(xs, reverse=True) on a list of floats, by insertion
RECURSIVE insert_descending(_, _)
insert_descending(x, s) ==
    IF s = <<>> THEN <<x>>
    ELSE IF FloatLess(s[1], x) THEN <<x>> \o s
    ELSE <<s[1]>> \o insert_descending(x, Tail(s))

RECURSIVE sorted_reverse(_)
sorted_reverse(xs) ==
    IF xs = <<>> THEN <<>>
    ELSE insert_descending(xs[Len(xs)], sorted_reverse(SubSeq(xs, 1, Len(xs) - 1)))

\* to_list of a tensor of indices: a list of Python ints
to_list_int(t) == [i \in 1..Len(t) |-> PyInt(t[i])]

-----------------------------------------------------------------------------
(* Predictions.                                                            *)

\* k's default in compute_predictions and compute_predictions_projection
DefaultK == 3

\* A transformation is None (compute_predictions then passes its input
\* through) or the projection `lambda x: torch.matmul(x, projection_matrix)`,
\* held as its matrix.
Projection(projection_matrix) ==
    [type |-> "projection", projection_matrix |-> projection_matrix]

transform(transformation, t) ==
    IF transformation = None THEN t ELSE matmul(t, transformation.projection_matrix)

\* argsort's choice among equal similarities makes the functions below
\* nondeterministic: each is the set of the outcomes its call may have.  An
\* intermediate value is bound once, as an element of a set, where the code
\* assigns it to a local variable.

\* the (similarities, closest) pairs closest_label may return
closest_label(sentence_representation, label_representations) ==
    UNION {{<<similarities, closest>> : closest \in argsort_descending(similarities)} :
              similarities \in
                  {cosine_similarity(sentence_representation, label_representations)}}

\* make_prediction with closest not cut to its first k entries
make_prediction_uncut(scores, closest, k) ==
    IF Len(closest) = 0
    THEN Raise("IndexError", "index 0 is out of bounds")
    ELSE Return(Prediction(
             to_list_int(closest),
             PySlice(sorted_reverse(scores), None, PyInt(k)),
             PyInt(closest[1])))

\* The Prediction built from the scores and closest of closest_label, or
\* the IndexError of closest[0] on an empty tensor.
make_prediction(scores, closest, k) ==
    IF Len(closest) = 0
    THEN Raise("IndexError", "index 0 is out of bounds")
    ELSE Return(Prediction(
             to_list_int(PySlice(closest, None, PyInt(k))),
             PySlice(sorted_reverse(scores), None, PyInt(k)),
             PyInt(closest[1])))

\* one iteration of compute_predictions's loop, for the row `embedding_row`
\* of a tensor of d columns
prediction_of(embedding_row, d, transformed_label_embeddings, k, transformation) ==
    {make_prediction(sc[1], sc[2], k) :
        sc \in closest_label(
                   transform(transformation,
                             [shape |-> <<1, d>>, rows |-> <<embedding_row>>]),
                   transformed_label_embeddings)}

\* the loop with each Prediction put before the earlier ones
RECURSIVE predictions_loop_prepend(_, _, _, _, _, _)
predictions_loop_prepend(norm_example_embeddings, i, transformed_label_embeddings, k, transformation, predictions) ==
    IF i > Len(norm_example_embeddings.rows)
    THEN {Return(predictions)}
    ELSE UNION
             {IF p.type = "raise" THEN {p}
              ELSE predictions_loop_prepend(norm_example_embeddings, i + 1,
                       transformed_label_embeddings, k, transformation,
                       <<p.value>> \o predictions) :
                 p \in prediction_of(norm_example_embeddings.rows[i],
                                     norm_example_embeddings.shape[2],
                                     transformed_label_embeddings, k, transformation)}

\* compute_predictions's loop from its i-th example on
RECURSIVE predictions_loop(_, _, _, _, _, _)
predictions_loop(norm_example_embeddings, i, transformed_label_embeddings, k, transformation, predictions) ==
    IF i > Len(norm_example_embeddings.rows)
    THEN {Return(predictions)}
    ELSE UNION
             {IF p.type = "raise" THEN {p}
              ELSE predictions_loop(norm_example_embeddings, i + 1,
                       transformed_label_embeddings, k, transformation,
                       Append(predictions, p.value)) :
                 p \in prediction_of(norm_example_embeddings.rows[i],
                                     norm_example_embeddings.shape[2],
                                     transformed_label_embeddings, k, transformation)}

compute_predictions(example_embeddings, label_embeddings, k, transformation) ==
    UNION
        {predictions_loop(norm_example_embeddings, 1, transformed_label_embeddings,
                          k, transformation, <<>>) :
            norm_example_embeddings \in
                {normalize(IF Len(example_embeddings.shape) = 1
                           THEN reshape_row(example_embeddings)
                           ELSE example_embeddings)},
            transformed_label_embeddings \in
                {transform(transformation, normalize(label_embeddings))}}

compute_predictions_projection(example_embeddings, label_embeddings, projection_matrix, k) ==
    compute_predictions(example_embeddings, label_embeddings, k,
                        Projection(projection_matrix))

-----------------------------------------------------------------------------
(* Dataset-level wrappers.                                                 *)

\* X and Y of predict_and_score_Wmap
Wmap_X(dataset, Zmap) ==
    IF Zmap # None
    THEN matmul(tensor_slice(dataset.embeddings, None, PyInt(-Len(dataset.categories))),
                Zmap)
    ELSE tensor_slice(dataset.embeddings, None, PyInt(-Len(dataset.categories)))

Wmap_Y(dataset, Zmap) ==
    IF Zmap # None
    THEN matmul(tensor_slice(dataset.embeddings, PyInt(-Len(dataset.categories)), None),
                Zmap)
    ELSE tensor_slice(dataset.embeddings, PyInt(-Len(dataset.categories)), None)

\* what predict_and_score_Wmap returns from its score and predictions
Wmap_return(score, predictions, return_predictions) ==
    IF score.type = "raise" THEN score
    ELSE IF return_predictions
         THEN Return(<<score.value, predictions>>)
         ELSE Return(score.value)

\* predict_and_score_Wmap after its call of compute_predictions_projection:
\* the locals X, Y and predictions, and the outcome
Wmap_score(dataset, X, Y, predictions, return_predictions) ==
    [X |-> X, Y |-> Y, predictions |-> predictions,
     outcome |->
        IF predictions.type = "raise" THEN predictions
        ELSE CHOOSE r \in
                 {Wmap_return(score, predictions.value, return_predictions) :
                     score \in {simple_accuracy(dataset.labels, predictions.value)}} :
                 TRUE]

Wmap_predict(dataset, X, Y, Wmap, return_predictions) ==
    {Wmap_score(dataset, X, Y, predictions, return_predictions) :
        predictions \in compute_predictions_projection(X, Y, Wmap, DefaultK)}

\* Wmap is a matrix; Zmap is None or a matrix.
predict_and_score_Wmap(dataset, Wmap, Zmap, return_predictions) ==
    UNION
        {Wmap_predict(dataset, X, Y, Wmap, return_predictions) :
            X \in {Wmap_X(dataset, Zmap)}, Y \in {Wmap_Y(dataset, Zmap)}}

\* the wrapper passing its matrix as the pre-projection too
predict_and_score_Zmap_twice(dataset, Zmap, return_predictions) ==
    predict_and_score_Wmap(dataset, Zmap, Zmap, return_predictions)

predict_and_score_Zmap(dataset, Zmap, return_predictions) ==
    predict_and_score_Wmap(dataset, Zmap, None, return_predictions)

-----------------------------------------------------------------------------
(* The inputs of the model.                                                *)

\* ground-truth labels: strings, the sentinel string among them
Labels == {PyStr("cat"), PyStr("dog"), MISSING_VALUE}

\* Prediction objects with any field values (scores play no part in
\* scoring): closest empty, shorter and longer than k, holding the sentinel
\* string, starting and not starting with best
Predictions ==
    {Prediction(<<>>, <<>>, PyStr("cat")),
     Prediction(<<PyStr("cat")>>, <<Float(1, 1)>>, PyStr("cat")),
     Prediction(<<PyStr("cat")>>, <<Float(1, 1)>>, PyStr("dog")),
     Prediction(<<PyStr("dog"), PyStr("cat")>>, <<Float(1, 1), Float(1, 2)>>,
                PyStr("dog")),
     Prediction(<<MISSING_VALUE, PyStr("cat")>>, <<Float(1, 1), Float(0, 1)>>,
                MISSING_VALUE)}

\* embedding vectors, and square matrices over them
Vectors == {<<1, 0>>, <<0, 1>>}
VectorDim == Len(CHOOSE v \in Vectors : TRUE)
Matrices ==
    {Matrix(<<<<1, 0>>, <<0, 1>>>>),    \* the identity
     Matrix(<<<<1, 0>>, <<-1, 1>>>>),   \* a shear: similarities turn negative
     Matrix(<<<<1, 0>>, <<0, 0>>>>)}    \* the projection onto the first axis:
                                        \* rows turn zero
Shear == Matrix(<<<<1, 0>>, <<-1, 1>>>>)

Tensors2(V, lo, hi) == {Tensor2(vs, VectorDim) : vs \in SeqsOf(V, lo, hi)}
Tensors1 == {Tensor1(v) : v \in Vectors}

\* dataset.labels: label indices
IndexLabels == {PyInt(0), PyInt(1)}

\* datasets with at most as many categories as embeddings
Datasets ==
    UNION {{[embeddings |-> e, labels |-> l,
             categories |-> [i \in 1..n |-> PyStr("category")]] :
               l \in SeqsOf(IndexLabels, 0, MaxLen), n \in 0..Len(e.rows)} :
           e \in Tensors2(Vectors, 0, MaxEmb)}

NoLocals == [type |-> "none"]

-----------------------------------------------------------------------------
(* The specification: one call of one function.                            *)

InitAccuracyImpl ==
    /\ fn = "_accuracy_impl"
    /\ args \in [ground_truth : SeqsOf(Labels, 0, MaxLen),
                 predictions : SeqsOf(Predictions, 0, MaxLen),
                 k : {None} \cup {PyInt(i) : i \in 0..MaxK}]

InitSimpleAccuracy ==
    /\ fn \in {"simple_accuracy", "simple_topk_accuracy"}
    /\ args \in [ground_truth : SeqsOf(Labels, 0, MaxLen),
                 predictions : SeqsOf(Predictions, 0, MaxLen)]

InitComputePredictions ==
    /\ fn = "compute_predictions"
    /\ args \in [example_embeddings : Tensors1 \cup Tensors2(Vectors, 0, MaxRows),
                 label_embeddings : Tensors2(Vectors, 0, MaxRows),
                 k : 1..MaxK,
                 transformation : {None, Projection(Shear)}]

InitComputePredictionsProjection ==
    /\ fn = "compute_predictions_projection"
    /\ args \in [example_embeddings : Tensors1 \cup Tensors2(Vectors, 0, MaxRows),
                 label_embeddings : Tensors2(Vectors, 0, MaxRows),
                 projection_matrix : Matrices,
                 k : 1..MaxK]

InitWmap ==
    /\ fn = "predict_and_score_Wmap"
    /\ args \in [dataset : Datasets,
                 Wmap : Matrices,
                 Zmap : {None, Shear},
                 return_predictions : BOOLEAN]

InitZmap ==
    /\ fn = "predict_and_score_Zmap"
    /\ args \in [dataset : Datasets,
                 Zmap : Matrices,
                 return_predictions : BOOLEAN]

Init ==
    /\ \/ InitAccuracyImpl
       \/ InitSimpleAccuracy
       \/ InitComputePredictions
       \/ InitComputePredictionsProjection
       \/ InitWmap
       \/ InitZmap
    /\ locals = NoLocals
    /\ outcome = Pending

Call_accuracy_impl ==
    /\ fn = "_accuracy_impl"
    /\ outcome = Pending
    /\ outcome' = _accuracy_impl(args.ground_truth, args.predictions, args.k)
    /\ UNCHANGED <<fn, args, locals>>

Call_simple_accuracy ==
    /\ fn = "simple_accuracy"
    /\ outcome = Pending
    /\ outcome' = simple_accuracy(args.ground_truth, args.predictions)
    /\ UNCHANGED <<fn, args, locals>>

Call_simple_topk_accuracy ==
    /\ fn = "simple_topk_accuracy"
    /\ outcome = Pending
    /\ outcome' = simple_topk_accuracy(args.ground_truth, args.predictions)
    /\ UNCHANGED <<fn, args, locals>>

Call_compute_predictions ==
    /\ fn = "compute_predictions"
    /\ outcome = Pending
    /\ outcome' \in compute_predictions(args.example_embeddings, args.label_embeddings,
                                        args.k, args.transformation)
    /\ UNCHANGED <<fn, args, locals>>

Call_compute_predictions_projection ==
    /\ fn = "compute_predictions_projection"
    /\ outcome = Pending
    /\ outcome' \in compute_predictions_projection(
                        args.example_embeddings, args.label_embeddings,
                        args.projection_matrix, args.k)
    /\ UNCHANGED <<fn, args, locals>>

Call_predict_and_score_Wmap ==
    /\ fn = "predict_and_score_Wmap"
    /\ outcome = Pending
    /\ \E r \in predict_and_score_Wmap(args.dataset, args.Wmap, args.Zmap,
                                       args.return_predictions) :
          /\ outcome' = r.outcome
          /\ locals' = [X |-> r.X, Y |-> r.Y, predictions |-> r.predictions]
    /\ UNCHANGED <<fn, args>>

Call_predict_and_score_Zmap ==
    /\ fn = "predict_and_score_Zmap"
    /\ outcome = Pending
    /\ \E r \in predict_and_score_Zmap(args.dataset, args.Zmap,
                                       args.return_predictions) :
          /\ outcome' = r.outcome
          /\ locals' = [X |-> r.X, Y |-> r.Y, predictions |-> r.predictions]
    /\ UNCHANGED <<fn, args>>

Next ==
    \/ Call_accuracy_impl
    \/ Call_simple_accuracy
    \/ Call_simple_topk_accuracy
    \/ Call_compute_predictions
    \/ Call_compute_predictions_projection
    \/ Call_predict_and_score_Wmap
    \/ Call_predict_and_score_Zmap

Spec == Init /\ [][Next]_vars

-----------------------------------------------------------------------------
(* Properties.                                                             *)

Done == outcome # Pending

AccuracyCall == fn \in {"_accuracy_impl", "simple_accuracy", "simple_topk_accuracy"}
PredictionsCall == fn \in {"compute_predictions", "compute_predictions_projection"}

\* the first k entries of a list
FirstK(s, k) == SubSeq(s, 1, Min(k, Len(s)))

\* the percentage that n of the call's ground_truth positions are
PercentOfPositions(n) == Float(100 * n, Len(args.ground_truth))

\* the transformation of a compute_predictions(_projection) call
TransformationOf ==
    IF fn = "compute_predictions" THEN args.transformation
    ELSE Projection(args.projection_matrix)

\* the examples of a compute_predictions(_projection) call, normalized
NormExamples ==
    normalize(IF Len(args.example_embeddings.shape) = 1
              THEN reshape_row(args.example_embeddings)
              ELSE args.example_embeddings)

\* the similarity of the call's i-th example to each of its labels
SimilaritiesOf(i) ==
    cosine_similarity(
        transform(TransformationOf,
                  [shape |-> <<1, NormExamples.shape[2]>>,
                   rows |-> <<NormExamples.rows[i]>>]),
        transform(TransformationOf, normalize(args.label_embeddings)))

NonIncreasing(scores) ==
    \A i \in 1..(Len(scores) - 1) : ~FloatLess(scores[i], scores[i + 1])

\* C1: for a non-empty ground_truth and predictions of the same length,
\* _accuracy_impl with k unset returns 100 * m / n, where m counts the
\* positions whose truth is in the prediction's closest list, whatever the
\* labels are; the value lies in [0, 100].
C1_TopkAccuracyForAnyLabels ==
    (/\ Done
     /\ \/ fn = "simple_topk_accuracy"
        \/ fn = "_accuracy_impl" /\ args.k = None
     /\ Len(args.ground_truth) > 0
     /\ Len(args.ground_truth) = Len(args.predictions))
    => /\ outcome =
            Return(PercentOfPositions(Cardinality(
                {i \in 1..Len(args.ground_truth) :
                    PyIn(args.ground_truth[i], args.predictions[i].closest)})))
       /\ 0 <= outcome.value.num
       /\ outcome.value.num <= 100 * outcome.value.den

\* C2: when ground_truth and predictions differ in length, the accuracy
\* functions raise the length-mismatch ValueError, however many leading
\* pairs matched.
C2_LengthMismatchRaises ==
    (AccuracyCall /\ Done /\ Len(args.ground_truth) # Len(args.predictions))
    => outcome = Raise("ValueError", "Accuracy length mismatch")

C2_Witness ==
    /\ fn = "simple_topk_accuracy"
    /\ Done
    /\ Len(args.ground_truth) = 2
    /\ Len(args.predictions) = 1
    /\ PyIn(args.ground_truth[1], args.predictions[1].closest)
    /\ outcome = Raise("ValueError", "Accuracy length mismatch")

\* C3: for every integer k >= 0 passed to _accuracy_impl, k = 0 included,
\* the match set of each pair is the first k entries of closest, so the
\* value returned is the percentage of truths among those first k entries.
C3_ExplicitKCutsMatchSet ==
    (/\ fn = "_accuracy_impl"
     /\ Done
     /\ args.k # None
     /\ outcome.type = "return")
    => outcome.value =
           PercentOfPositions(Cardinality(
               {i \in 1..Len(args.ground_truth) :
                   PyIn(args.ground_truth[i],
                        FirstK(args.predictions[i].closest, args.k.val))}))

\* C4: simple_accuracy returns the percentage of positions whose truth
\* equals the prediction's best, for Prediction objects with any fields
\* (stated here for ground truths free of the sentinel string).
C4_SimpleAccuracyMatchesBest ==
    (/\ fn = "simple_accuracy"
     /\ Done
     /\ Len(args.ground_truth) > 0
     /\ Len(args.ground_truth) = Len(args.predictions)
     /\ \A i \in 1..Len(args.ground_truth) : args.ground_truth[i] # MISSING_VALUE)
    => outcome =
           Return(PercentOfPositions(Cardinality(
               {i \in 1..Len(args.ground_truth) :
                   PyEq(args.ground_truth[i], args.predictions[i].best)})))

\* C5: for a positive k and a non-empty label collection, every Prediction
\* compute_predictions returns has min(k, num_labels) scores and as many
\* closest, non-increasing scores, and closest[0] == best.
C5_PredictionShape ==
    (PredictionsCall /\ Done /\ Len(args.label_embeddings.rows) > 0)
    => /\ outcome.type = "return"
       /\ \A i \in 1..Len(outcome.value) :
            LET p == outcome.value[i]
            IN  /\ Len(p.scores) = Min(args.k, Len(args.label_embeddings.rows))
                /\ Len(p.closest) = Len(p.scores)
                /\ NonIncreasing(p.scores)
                /\ p.closest[1] = p.best

C5_Witness ==
    /\ fn = "compute_predictions"
    /\ Done
    /\ Len(args.label_embeddings.rows) = 2
    /\ args.k = 1
    /\ outcome.type = "return"
    /\ Len(outcome.value) = 2
    /\ Len(outcome.value[2].closest) = 1

\* C6: in every Prediction returned, scores[j] is the similarity of the
\* example to the label closest[j], and no label outside closest is more
\* similar than the last score, with equal similarities too.
C6_ScoresAlignedWithClosest ==
    (PredictionsCall /\ Done /\ outcome.type = "return")
    => \A i \in 1..Len(outcome.value) :
          LET p == outcome.value[i]
              inClosest == {p.closest[j].val : j \in 1..Len(p.closest)}
          IN  /\ \A j \in 1..Len(p.closest) :
                    p.scores[j] = SimilaritiesOf(i)[p.closest[j].val + 1]
              /\ \A l \in 0..(Len(args.label_embeddings.rows) - 1) :
                    l \notin inClosest
                    => ~FloatLess(p.scores[Len(p.scores)], SimilaritiesOf(i)[l + 1])

\* two labels of equal similarity, one returned and one cut off by k
C6_Witness ==
    /\ PredictionsCall
    /\ Done
    /\ outcome.type = "return"
    /\ Len(outcome.value) >= 1
    /\ Len(args.label_embeddings.rows) = 2
    /\ args.k = 1
    /\ SimilaritiesOf(1)[1] = SimilaritiesOf(1)[2]
    /\ outcome.value[1].closest = <<PyInt(1)>>

\* the first n - c rows and the last c rows of the dataset's embeddings,
\* projected by Zmap when it is given
AllButLast(c) ==
    LET rows == SubSeq(args.dataset.embeddings.rows, 1,
                       Len(args.dataset.embeddings.rows) - c)
        t == [shape |-> <<Len(rows), VectorDim>>, rows |-> rows]
    IN  IF args.Zmap # None THEN matmul(t, args.Zmap) ELSE t

Last(c) ==
    LET rows == SubSeq(args.dataset.embeddings.rows,
                       Len(args.dataset.embeddings.rows) - c + 1,
                       Len(args.dataset.embeddings.rows))
        t == [shape |-> <<Len(rows), VectorDim>>, rows |-> rows]
    IN  IF args.Zmap # None THEN matmul(t, args.Zmap) ELSE t

\* C7: predict_and_score_Wmap takes all embeddings but the last
\* num_categories as examples and the last num_categories as labels, also
\* when num_categories = 0.
C7_SplitAtNumCategories ==
    (fn = "predict_and_score_Wmap" /\ Done)
    => /\ locals.X = AllButLast(Len(args.dataset.categories))
       /\ locals.Y = Last(Len(args.dataset.categories))
       /\ Len(locals.X.rows) =
              Len(args.dataset.embeddings.rows) - Len(args.dataset.categories)
       /\ Len(locals.Y.rows) = Len(args.dataset.categories)

\* C8: with ground_truth and predictions both empty, the accuracy functions
\* raise the empty-input ValueError.
C8_EmptyInputRaises ==
    (/\ AccuracyCall
     /\ Done
     /\ Len(args.ground_truth) = 0
     /\ Len(args.predictions) = 0)
    => outcome = Raise("ValueError", "Passed lists should be non-empty")

C8_Witness ==
    /\ fn = "_accuracy_impl"
    /\ Done
    /\ args.ground_truth = <<>>
    /\ args.predictions = <<>>
    /\ args.k = PyInt(1)
    /\ outcome.type = "raise"

\* the Predictions that may be computed from the call's i-th example
PredictionsOfExample(i) ==
    {r.value :
        r \in {q \in prediction_of(NormExamples.rows[i], NormExamples.shape[2],
                                   transform(TransformationOf,
                                             normalize(args.label_embeddings)),
                                   args.k, TransformationOf) :
                 q.type = "return"}}

OnePerExample ==
    /\ outcome.type = "return"
    /\ Len(outcome.value) = Len(NormExamples.rows)
    /\ Len(args.example_embeddings.shape) = 1 => Len(outcome.value) = 1
    /\ \A i \in 1..Len(outcome.value) : outcome.value[i] \in PredictionsOfExample(i)

\* C9 as stated: for every example collection of length n >= 0,
\* compute_predictions returns n Predictions, the i-th computed from the
\* i-th example, and one Prediction for a rank-1 example.
C9_OnePredictionPerExample ==
    (PredictionsCall /\ Done) => OnePerExample

\* C9 amended: the same, when there is a label or there is no example.
C9_OnePredictionPerExampleGivenLabels ==
    (/\ PredictionsCall
     /\ Done
     /\ \/ Len(args.label_embeddings.rows) > 0
        \/ Len(NormExamples.rows) = 0)
    => OnePerExample

C9_Witness ==
    /\ fn = "compute_predictions"
    /\ Done
    /\ Len(args.example_embeddings.shape) = 1
    /\ Len(args.label_embeddings.rows) = 2
    /\ outcome.type = "return"
    /\ Len(outcome.value) = 1

\* C10: predict_and_score_Zmap(dataset, M, return_predictions) has an
\* outcome of predict_and_score_Wmap(dataset, Wmap=M, Zmap=None,
\* return_predictions): the embeddings are not projected before the split,
\* and M is the projection of the predictions.
C10_ZmapIsWmapWithoutPreprojection ==
    (fn = "predict_and_score_Zmap" /\ Done)
    => /\ \E r \in predict_and_score_Wmap(args.dataset, args.Zmap, None,
                                          args.return_predictions) :
             /\ r.outcome = outcome
             /\ r.X = locals.X
             /\ r.Y = locals.Y
             /\ r.predictions = locals.predictions
       /\ locals.X = tensor_slice(args.dataset.embeddings, None,
                                  PyInt(-Len(args.dataset.categories)))
       /\ locals.predictions \in
              compute_predictions(locals.X, locals.Y, DefaultK, Projection(args.Zmap))

C10_Witness ==
    /\ fn = "predict_and_score_Zmap"
    /\ Done
    /\ args.Zmap = Shear
    /\ args.return_predictions
    /\ outcome.type = "return"
    /\ Len(outcome.value[2]) = 2

=============================================================================
